---------------------------- MODULE Spec2Model ----------------------------
(***************************************************************************)
(* The blog content loader of ReactJon (src/lib/blog.ts, in its updated    *)
(* form and in the form written by the setup script): getBlogPosts and     *)
(* getBlogPost over a content directory of .mdx files.                     *)
(*                                                                         *)
(* Strings are sequences of atoms (characters for file names and slugs,    *)
(* words and "\n" for text).  A JavaScript value is a record [ty, v] whose *)
(* v is always a sequence of atoms; a JavaScript object is a function from *)
(* its keys to values.                                                     *)
(***************************************************************************)
EXTENDS Integers, Sequences, FiniteSets, TLC

(***************************************************************************)
(* Bounds                                                                  *)
(***************************************************************************)
MaxFiles == 3

(***************************************************************************)
(* JavaScript values and objects                                           *)
(***************************************************************************)
Undefined == [ty |-> "undefined", v |-> <<>>]

Null == [ty |-> "null", v |-> <<>>]

Str(s) == [ty |-> "string", v |-> s]

Arr(s) == [ty |-> "array", v |-> s]

EmptyObject == [k \in {} |-> Undefined]

\* ToBoolean: undefined, null and '' are falsy, every array is truthy
Truthy(x) == x.ty = "array" \/ (x.ty = "string" /\ x.v # <<>>)

\* x || d
OrElse(x, d) == IF Truthy(x) THEN x ELSE d

\* obj.k
Get(obj, k) == IF k \in DOMAIN obj THEN obj[k] ELSE Undefined

\* { ...base, ...data }: the keys of data override the keys of base
Spread(base, data) ==
  [k \in (DOMAIN base) \cup (DOMAIN data) |->
     IF k \in DOMAIN data THEN data[k] ELSE base[k]]

(***************************************************************************)
(* Strings                                                                 *)
(***************************************************************************)
Ext == <<".", "m", "d", "x">>

\* String.prototype.endsWith
endsWith(s, suffix) ==
  /\ Len(s) >= Len(suffix)
  /\ SubSeq(s, Len(s) - Len(suffix) + 1, Len(s)) = suffix

\* file.replace(/\.mdx$/, '')
replaceExt(file) ==
  IF endsWith(file, Ext) THEN SubSeq(file, 1, Len(file) - Len(Ext)) ELSE file

\* `${slug}.mdx`
withExt(slug) == slug \o Ext

RECURSIVE joinLines(_)
\* the lines of a text joined by "\n"
joinLines(lines) ==
  IF lines = <<>> THEN <<>>
  ELSE IF Len(lines) = 1 THEN lines[1]
  ELSE lines[1] \o <<"\n">> \o joinLines(Tail(lines))

(***************************************************************************)
(* The header language (js-yaml as called by gray-matter), on lines of     *)
(* tokens: key : value, where a value is empty or null (null), a quoted    *)
(* string, a plain string, or a flow sequence [ a b ].                     *)
(***************************************************************************)
Delim == <<"---">>

Special == {":", "'", "[", "]", "---", "\n"}

IsPlain(toks) ==
  /\ toks # <<>>
  /\ \A i \in 1..Len(toks) : toks[i] \notin Special
  /\ toks \notin {<<"null">>, <<"~">>}

IsQuoted(toks) ==
  /\ Len(toks) >= 2
  /\ toks[1] = "'"
  /\ toks[Len(toks)] = "'"
  /\ \A i \in 2..(Len(toks) - 1) : toks[i] # "'"

IsFlowSeq(toks) ==
  /\ Len(toks) >= 2
  /\ toks[1] = "["
  /\ toks[Len(toks)] = "]"
  /\ \A i \in 2..(Len(toks) - 1) : toks[i] \notin Special

IsYamlValue(toks) ==
  \/ toks \in {<<>>, <<"null">>, <<"~">>}
  \/ IsQuoted(toks)
  \/ IsFlowSeq(toks)
  \/ IsPlain(toks)

\* the value a well-formed value text denotes
yamlValue(toks) ==
  IF toks \in {<<>>, <<"null">>, <<"~">>} THEN Null
  ELSE IF IsQuoted(toks) THEN Str(SubSeq(toks, 2, Len(toks) - 1))
  ELSE IF IsFlowSeq(toks) THEN Arr(SubSeq(toks, 2, Len(toks) - 1))
  ELSE Str(toks)

\* the text js-yaml writes for a value (strings are always quoted here)
yamlDump(x) ==
  IF x.ty = "null" THEN <<"null">>
  ELSE IF x.ty = "array" THEN <<"[">> \o x.v \o <<"]">>
  ELSE <<"'">> \o x.v \o <<"'">>

IsYamlLine(line) ==
  \/ line = <<>>
  \/ /\ Len(line) >= 2
     /\ line[1] \notin Special
     /\ line[2] = ":"
     /\ IsYamlValue(SubSeq(line, 3, Len(line)))

\* a mapping with a duplicated key is an error in js-yaml
IsYaml(lines) ==
  /\ \A i \in 1..Len(lines) : IsYamlLine(lines[i])
  /\ \A i, j \in 1..Len(lines) :
       (i # j /\ lines[i] # <<>> /\ lines[j] # <<>>) => lines[i][1] # lines[j][1]

yamlLoad(lines) ==
  LET idx == {i \in 1..Len(lines) : lines[i] # <<>>}
      keys == {lines[i][1] : i \in idx}
  IN  [k \in keys |->
         LET i == CHOOSE i \in idx : lines[i][1] = k
         IN  yamlValue(SubSeq(lines[i], 3, Len(lines[i])))]

(***************************************************************************)
(* gray-matter: matter(fileContents) on the lines of a file.  The result   *)
(* is [ok, data, content]; ok = FALSE stands for the exception the header  *)
(* parser throws.                                                          *)
(***************************************************************************)
\* index of the first closing delimiter line after the opening one, 0 if none
closeIndex(lines) ==
  LET c == {i \in 2..Len(lines) : lines[i] = Delim}
  IN  IF c = {} THEN 0 ELSE CHOOSE i \in c : \A j \in c : i <= j

matter(lines) ==
  IF lines = <<>> \/ lines[1] # Delim
  THEN [ok |-> TRUE, data |-> EmptyObject, content |-> Str(joinLines(lines))]
  ELSE LET ci     == closeIndex(lines)
           last   == IF ci = 0 THEN Len(lines) ELSE ci - 1
           block  == SubSeq(lines, 2, last)
           rest   == IF ci = 0 THEN <<>> ELSE SubSeq(lines, ci + 1, Len(lines))
       IN  IF ~IsYaml(block)
           THEN [ok |-> FALSE, data |-> EmptyObject, content |-> Str(<<>>)]
           ELSE [ok |-> TRUE, data |-> yamlLoad(block), content |-> Str(joinLines(rest))]

(***************************************************************************)
(* reading-time: readingTime(content).text                                 *)
(***************************************************************************)
WordsPerMinute == 200

\* the words of a text are its atoms other than the separators
words(text) == Cardinality({i \in 1..Len(text) : text[i] \notin {"\n", ""}})

\* minutes.toFixed(2) rounds the double nearest to n / 200.  An exact tie
\* (n odd) is decided by that double; it changes the result only for
\* n = 200k + 1, where the double lies above the tie for n = 1 and below it
\* for n = 201, 401, ..., 1401.
TieUp(n) == n = 1

\* Math.ceil(minutes.toFixed(2)) with minutes = words / 200
displayed(n) ==
  LET q          == (n * 100) \div WordsPerMinute
      r          == (n * 100) % WordsPerMinute
      hundredths == IF 2 * r > WordsPerMinute \/ (2 * r = WordsPerMinute /\ TieUp(n))
                    THEN q + 1 ELSE q
  IN  (hundredths + 99) \div 100

readingTime(content) == Str(<<ToString(displayed(words(content.v))), "min", "read">>)

(***************************************************************************)
(* new Date(x).getTime(): [nan, t], t in days since the epoch.  Only ISO   *)
(* date strings denote a time; new Date(null) is the epoch; an array is    *)
(* converted to the string of its elements first.                          *)
(***************************************************************************)
Epoch ==
  [d \in {"2024-12-31", "2025-01-01", "2025-04-15"} |->
     IF d = "2024-12-31" THEN 20088 ELSE IF d = "2025-01-01" THEN 20089 ELSE 20193]

NaN == [nan |-> TRUE, t |-> 0]

getTime(x) ==
  IF x.ty = "null" THEN [nan |-> FALSE, t |-> 0]
  ELSE IF x.ty \in {"string", "array"} /\ Len(x.v) = 1 /\ x.v[1] \in DOMAIN Epoch
       THEN [nan |-> FALSE, t |-> Epoch[x.v[1]]]
       ELSE NaN

\* the comparator with its operands exchanged (oldest first)
compareFnAscending(a, b) ==
  LET tb == getTime(Get(b, "date"))
      ta == getTime(Get(a, "date"))
  IN  IF tb.nan \/ ta.nan THEN NaN ELSE [nan |-> FALSE, t |-> ta.t - tb.t]

\* the comparator of the sort: new Date(b.date).getTime() - new Date(a.date).getTime()
compareFn(a, b) ==
  LET tb == getTime(Get(b, "date"))
      ta == getTime(Get(a, "date"))
  IN  IF tb.nan \/ ta.nan THEN NaN ELSE [nan |-> FALSE, t |-> tb.t - ta.t]

\* SortCompare of Array.prototype.sort: a NaN result counts as +0
sortCompare(a, b) == LET c == compareFn(a, b) IN IF c.nan THEN 0 ELSE c.t

(***************************************************************************)
(* Array.prototype.sort.  With a consistent comparator the sort is stable  *)
(* and its result is determined; with an inconsistent one the order of the *)
(* result is implementation-defined: any permutation of the array.         *)
(***************************************************************************)
Range(seq) == {seq[i] : i \in 1..Len(seq)}

Perms(n) == {p \in [1..n -> 1..n] : \A i, j \in 1..n : p[i] = p[j] => i = j}

IsConsistent(arr) ==
  \A a, b, c \in Range(arr) :
    /\ (sortCompare(a, b) = 0) => (sortCompare(b, a) = 0)
    /\ (sortCompare(a, b) = 0 /\ sortCompare(b, c) = 0) => (sortCompare(a, c) = 0)
    /\ (sortCompare(a, b) < 0 /\ sortCompare(b, c) < 0) => (sortCompare(a, c) < 0)
    /\ (sortCompare(a, b) > 0 /\ sortCompare(b, c) > 0) => (sortCompare(a, c) > 0)

\* x goes before the first element that must come after it
insert(sorted, x) ==
  LET later == {i \in 1..Len(sorted) : sortCompare(sorted[i], x) > 0}
      at    == IF later = {} THEN Len(sorted) + 1
               ELSE CHOOSE i \in later : \A j \in later : i <= j
  IN  SubSeq(sorted, 1, at - 1) \o <<x>> \o SubSeq(sorted, at, Len(sorted))

RECURSIVE stableSort(_)
stableSort(arr) ==
  IF arr = <<>> THEN <<>>
  ELSE insert(stableSort(SubSeq(arr, 1, Len(arr) - 1)), arr[Len(arr)])

\* the arrays arr.sort(compareFn) may produce
sort(arr) ==
  IF IsConsistent(arr) THEN {stableSort(arr)}
  ELSE {[i \in 1..Len(arr) |-> arr[p[i]]] : p \in Perms(Len(arr))}

(***************************************************************************)
(* The file system: the content directory (absent, a directory, or a path  *)
(* that exists but is not a directory) and its entries by name.            *)
(***************************************************************************)
Names ==
  { <<"a", ".", "m", "d", "x">>,
    <<"b", ".", "m", "d", "x">>,
    <<"c", ".", "m", "d", "x">>,
    <<"h", "e", "l", "l", "o", "-", "w", "o", "r", "l", "d", ".", "m", "d">> }

Absent == [kind |-> "absent", text |-> <<>>]

\* an entry that exists and whose read fails (a subdirectory: EISDIR)
Unreadable == [kind |-> "dir", text |-> <<>>]

File(text) == [kind |-> "file", text |-> text]

\* fs.existsSync(contentDirectory)
existsSync(f) == f.dir # "absent"

\* fs.readdirSync(contentDirectory): the names, in an order the platform chooses
readdirSync(f) ==
  LET present == {n \in Names : f.files[n].kind # "absent"}
      k       == Cardinality(present)
  IN  {o \in [1..k -> present] : \A i, j \in 1..k : o[i] = o[j] => i = j}

\* fs.readFileSync(path.join(contentDirectory, file), 'utf8')
CanRead(f, file) ==
  /\ f.dir = "dir"
  /\ file \in Names
  /\ f.files[file].kind = "file"

readFileSync(f, file) == f.files[file].text

(***************************************************************************)
(* Results of a call                                                       *)
(***************************************************************************)
Return(posts) == [kind |-> "list", posts |-> posts]

ReturnPost(post) == [kind |-> "post", posts |-> <<post>>]

ReturnNull == [kind |-> "null", posts |-> <<>>]

Throw == [kind |-> "throw", posts |-> <<>>]

NoCall == [kind |-> "none", posts |-> <<>>]

(***************************************************************************)
(* The loader, updated version                                             *)
(***************************************************************************)
\* the literal with the spread written first: its own fields override the header
BlogPostSpreadFirst(slug, data, content) ==
  Spread(data,
         [slug        |-> Str(slug),
          title       |-> Get(data, "title"),
          date        |-> Get(data, "date"),
          excerpt     |-> OrElse(Get(data, "excerpt"), Str(<<>>)),
          tags        |-> OrElse(Get(data, "tags"), Arr(<<>>)),
          readingTime |-> readingTime(content),
          content     |-> content])

\* the literal without the spread of the header
BlogPostNoSpread(slug, data, content) ==
  [slug        |-> Str(slug),
   title       |-> Get(data, "title"),
   date        |-> Get(data, "date"),
   excerpt     |-> OrElse(Get(data, "excerpt"), Str(<<>>)),
   tags        |-> OrElse(Get(data, "tags"), Arr(<<>>)),
   readingTime |-> readingTime(content),
   content     |-> content]

\* the literal without the defaults of excerpt and tags
BlogPostNoDefaults(slug, data, content) ==
  Spread([slug        |-> Str(slug),
          title       |-> Get(data, "title"),
          date        |-> Get(data, "date"),
          readingTime |-> readingTime(content),
          content     |-> content],
         data)

\* the object literal both operations of the updated loader return
BlogPost(slug, data, content) ==
  Spread([slug        |-> Str(slug),
          title       |-> Get(data, "title"),
          date        |-> Get(data, "date"),
          excerpt     |-> OrElse(Get(data, "excerpt"), Str(<<>>)),
          tags        |-> OrElse(Get(data, "tags"), Arr(<<>>)),
          readingTime |-> readingTime(content),
          content     |-> content],
         data)

\* the listing without its filter: every entry is taken as a content file
filterNothing(files) == files

\* files.filter((file) => file.endsWith('.mdx'))
filter(files) == SelectSeq(files, LAMBDA file : endsWith(file, Ext))

\* the map callback completes: the file is read and its header parses
Parses(f, file) == CanRead(f, file) /\ matter(readFileSync(f, file)).ok

\* the map callback of getBlogPosts
mapFile(f, file) ==
  LET m == matter(readFileSync(f, file))
  IN  BlogPost(replaceExt(file), m.data, m.content)

\* the results getBlogPosts() may produce on the file system f
getBlogPosts(f) ==
  IF ~existsSync(f) THEN {Return(<<>>)}
  ELSE IF f.dir # "dir" THEN {Throw}
  ELSE UNION
    { LET mdx == filter(files)
      IN  IF \E i \in 1..Len(mdx) : ~Parses(f, mdx[i])
          THEN {Throw}
          ELSE {Return(r) : r \in sort([i \in 1..Len(mdx) |-> mapFile(f, mdx[i])])}
      : files \in readdirSync(f) }

\* getBlogPost without its try/catch: a failed read or parse is thrown
getBlogPostUncaught(f, slug) ==
  IF ~Parses(f, withExt(slug)) THEN Throw
  ELSE LET m == matter(readFileSync(f, withExt(slug)))
       IN  ReturnPost(BlogPost(slug, m.data, m.content))

\* the result of getBlogPost(slug) on the file system f
getBlogPost(f, slug) ==
  IF ~Parses(f, withExt(slug)) THEN ReturnNull
  ELSE LET m == matter(readFileSync(f, withExt(slug)))
       IN  ReturnPost(BlogPost(slug, m.data, m.content))

(***************************************************************************)
(* The loader as the setup script writes it: no check that the directory   *)
(* exists, no tags default                                                 *)
(***************************************************************************)
\* the setup script's literal without the excerpt default
BlogPostSetupNoExcerpt(slug, data, content) ==
  Spread([slug        |-> Str(slug),
          title       |-> Get(data, "title"),
          date        |-> Get(data, "date"),
          readingTime |-> readingTime(content),
          content     |-> content],
         data)

BlogPostSetup(slug, data, content) ==
  Spread([slug        |-> Str(slug),
          title       |-> Get(data, "title"),
          date        |-> Get(data, "date"),
          excerpt     |-> OrElse(Get(data, "excerpt"), Str(<<>>)),
          readingTime |-> readingTime(content),
          content     |-> content],
         data)

mapFileSetup(f, file) ==
  LET m == matter(readFileSync(f, file))
  IN  BlogPostSetup(replaceExt(file), m.data, m.content)

getBlogPostsSetup(f) ==
  IF f.dir # "dir" THEN {Throw}
  ELSE UNION
    { LET mdx == filter(files)
      IN  IF \E i \in 1..Len(mdx) : ~Parses(f, mdx[i])
          THEN {Throw}
          ELSE {Return(r) : r \in sort([i \in 1..Len(mdx) |-> mapFileSetup(f, mdx[i])])}
      : files \in readdirSync(f) }

getBlogPostSetup(f, slug) ==
  IF ~Parses(f, withExt(slug)) THEN ReturnNull
  ELSE LET m == matter(readFileSync(f, withExt(slug)))
       IN  ReturnPost(BlogPostSetup(slug, m.data, m.content))

(***************************************************************************)
(* Content files.  A file with front matter is written as the sample post  *)
(* of the setup script is: the delimiter, one line per header field, the   *)
(* delimiter, the body.                                                    *)
(***************************************************************************)
KeyOrder == <<"title", "date", "excerpt", "tags">>

headerLines(header) ==
  LET ks == SelectSeq(KeyOrder, LAMBDA k : k \in DOMAIN header)
  IN  [i \in 1..Len(ks) |-> <<ks[i], ":">> \o yamlDump(header[ks[i]])]

frontMatter(header, body) == <<Delim>> \o headerLines(header) \o <<Delim>> \o body

Full ==
  [title   |-> Str(<<"Hello">>),
   date    |-> Str(<<"2025-04-15">>),
   excerpt |-> Str(<<"An", "intro">>),
   tags    |-> Arr(<<"React", "TypeScript">>)]

Bare == [title |-> Str(<<"Hello">>), date |-> Str(<<"2025-01-01">>)]

\* no date, and an excerpt and tags that are declared but falsy
Undated == [title |-> Str(<<"Draft">>), excerpt |-> Str(<<>>), tags |-> Null]

Headers == {Full, Bare, Undated}

Article == << <<>>, <<"#", "Hello">>, <<>>, <<"some", "words", "here">> >>

Short == << <<"word">> >>

Bodies == {Article, Short}

\* a header that declares slug and readingTime itself, and an extra field
Overriding ==
  << Delim,
     <<"title", ":", "'", "Old", "'">>,
     <<"date", ":", "'", "2024-12-31", "'">>,
     <<"slug", ":", "b">>,
     <<"author", ":", "Jon", "X">>,
     <<"readingTime", ":", "long">>,
     Delim,
     <<"old", "words">> >>

\* a header the header parser rejects (unterminated quote)
Malformed == << Delim, <<"title", ":", "'", "Broken">>, Delim, <<"text">> >>

\* a file without front matter
Plain == << <<"just", "text">> >>

Texts ==
  { frontMatter(Full, Article), frontMatter(Bare, Article), frontMatter(Bare, Short),
    frontMatter(Undated, Short), Overriding, Malformed, Plain }

Entries == {File(t) : t \in Texts} \cup {Unreadable}

NoFiles == [n \in Names |-> Absent]

Present(files) == {n \in Names : files[n].kind # "absent"}

FileSystems ==
  {[dir |-> d, files |-> NoFiles] : d \in {"absent", "file"}}
  \cup {[dir |-> "dir", files |-> fl] :
          fl \in {g \in [Names -> Entries \cup {Absent}] :
                    Cardinality(Present(g)) <= MaxFiles}}

HelloWorld == <<"h", "e", "l", "l", "o", "-", "w", "o", "r", "l", "d">>

Slugs == {<<"a">>, <<"b">>, <<"c">>, HelloWorld, <<"z", "z">>}

(***************************************************************************)
(* A platform fixes what the language leaves to the implementation: the    *)
(* order in which the directory is enumerated, and the insertion sort the  *)
(* engine runs on short arrays (scanning from the front or from the back;  *)
(* the two agree whenever the comparator is consistent).  On one platform  *)
(* the loader is a function of the file system.                            *)
(***************************************************************************)
Ascending ==
  << <<"a", ".", "m", "d", "x">>,
     <<"b", ".", "m", "d", "x">>,
     <<"c", ".", "m", "d", "x">>,
     <<"h", "e", "l", "l", "o", "-", "w", "o", "r", "l", "d", ".", "m", "d">> >>

Reversed == [i \in 1..Len(Ascending) |-> Ascending[Len(Ascending) + 1 - i]]

V8 == [order |-> Ascending, engine |-> "backward"]

Other == [order |-> Reversed, engine |-> "forward"]

Platforms == {V8, Other}

\* fs.readdirSync(contentDirectory) on platform e
readdirOn(e, f) == SelectSeq(e.order, LAMBDA n : f.files[n].kind # "absent")

\* x goes after the last element it must not precede
insertBack(sorted, x) ==
  LET before == {i \in 1..Len(sorted) : ~(sortCompare(x, sorted[i]) < 0)}
      at     == IF before = {} THEN 1
                ELSE 1 + CHOOSE i \in before : \A j \in before : j <= i
  IN  SubSeq(sorted, 1, at - 1) \o <<x>> \o SubSeq(sorted, at, Len(sorted))

RECURSIVE backwardSort(_)
backwardSort(arr) ==
  IF arr = <<>> THEN <<>>
  ELSE insertBack(backwardSort(SubSeq(arr, 1, Len(arr) - 1)), arr[Len(arr)])

\* arr.sort(compareFn) on platform e
sortOn(e, arr) == IF e.engine = "forward" THEN stableSort(arr) ELSE backwardSort(arr)

\* getBlogPosts() on platform e and file system f
getBlogPostsOn(e, f) ==
  IF ~existsSync(f) THEN Return(<<>>)
  ELSE IF f.dir # "dir" THEN Throw
  ELSE LET mdx == filter(readdirOn(e, f))
       IN  IF \E i \in 1..Len(mdx) : ~Parses(f, mdx[i])
           THEN Throw
           ELSE Return(sortOn(e, [i \in 1..Len(mdx) |-> mapFile(f, mdx[i])]))

\* the invocations a session makes, and what is remembered of each: nothing,
\* or its latest result and the file system it ran on
SessionSlugs == {<<"a">>, <<"z", "z">>}

Keys == {[op |-> "getBlogPosts", slug |-> <<>>]}
        \cup {[op |-> "getBlogPost", slug |-> s] : s \in SessionSlugs}

Unseen == [called |-> FALSE, ret |-> NoCall, at |-> [dir |-> "absent", files |-> NoFiles]]

NothingSeen == [k \in Keys |-> Unseen]

\* the callers, and an invocation in progress: where it is, what it was asked,
\* and its locals (the names still to map, the posts mapped so far)
Callers == {1, 2}

NotRunning ==
  [pc |-> "idle", key |-> [op |-> "none", slug |-> <<>>], files |-> <<>>,
   posts |-> <<>>, ret |-> NoCall, overlapped |-> FALSE]

NoneRunning == [c \in Callers |-> NotRunning]

(***************************************************************************)
(* Paths.  A path is a sequence of segments; a slug is a string, and the   *)
(* string `${slug}.mdx` is joined to contentDirectory by path.join, which  *)
(* splits it at "/" and normalizes the result: empty and "." segments are  *)
(* dropped, a ".." segment removes the segment before it.                  *)
(***************************************************************************)
\* path.join(process.cwd(), 'src/content/blog')
contentDirectory == << <<"cwd">>, <<"src">>, <<"content">>, <<"blog">> >>

RECURSIVE split(_)
split(s) ==
  IF s = <<>> THEN << <<>> >>
  ELSE LET r == split(Tail(s))
       IN  IF Head(s) = "/" THEN << <<>> >> \o r
           ELSE << <<Head(s)>> \o Head(r) >> \o Tail(r)

RECURSIVE normalize(_, _)
normalize(base, segs) ==
  IF segs = <<>> THEN base
  ELSE LET seg == Head(segs)
       IN  IF seg = <<>> \/ seg = <<".">> THEN normalize(base, Tail(segs))
           ELSE IF seg = <<".", ".">>
                THEN normalize(IF base = <<>> THEN base
                               ELSE SubSeq(base, 1, Len(base) - 1), Tail(segs))
                ELSE normalize(Append(base, seg), Tail(segs))

\* path.join(dir, name)
join(dir, name) == normalize(dir, split(name))

\* the .mdx files there may be outside the content directory
OuterPaths ==
  { << <<"cwd">>, <<"src">>, <<"content">>, <<"projects">>, <<"x", ".", "m", "d", "x">> >>,
    << <<"cwd">>, <<"secret", ".", "m", "d", "x">> >> }

NothingOutside == [p \in OuterPaths |-> Absent]

\* p names an entry of the content directory itself
DirectEntry(p) ==
  /\ Len(p) = Len(contentDirectory) + 1
  /\ SubSeq(p, 1, Len(contentDirectory)) = contentDirectory

\* the entry at a path: an entry of the content directory, a file outside
\* it, or nothing
entryAt(f, o, p) ==
  IF DirectEntry(p)
  THEN IF f.dir = "dir" /\ p[Len(p)] \in Names THEN f.files[p[Len(p)]] ELSE Absent
  ELSE IF p \in OuterPaths THEN o[p] ELSE Absent

\* the result of getBlogPost(slug) for any string slug, on the content
\* directory f and the outside files o
getBlogPostAt(f, o, slug) ==
  LET e == entryAt(f, o, join(contentDirectory, withExt(slug)))
  IN  IF e.kind # "file" \/ ~matter(e.text).ok THEN ReturnNull
      ELSE ReturnPost(BlogPost(slug, matter(e.text).data, matter(e.text).content))

(***************************************************************************)
(* The page.  The Layout renders the Header on every route and the home    *)
(* page renders the Hero.  The Header holds the flag of its mobile menu    *)
(* and renders the navigation for the current pathname; the Hero holds the *)
(* copied flag.  A pathname is the sequence of its segments.  Time is      *)
(* counted in milliseconds and advances in ticks.  Kept for the            *)
(* properties: the toggle clicks since the last click on a menu link, the  *)
(* time since the last click on the copy button, the state of the          *)
(* clipboard write that click started.                                     *)
(***************************************************************************)
MaxToggles == 3

MaxTimers == 2

Home == <<>>

Contact == <<"contact">>

navItems ==
  << [name |-> "Home",     href |-> Home],
     [name |-> "Services", href |-> <<"services">>],
     [name |-> "Projects", href |-> <<"projects">>],
     [name |-> "Blog",     href |-> <<"blog">>],
     [name |-> "About",    href |-> <<"about">>] >>

\* the routes a visitor can be on
Paths == {navItems[i].href : i \in 1..Len(navItems)} \cup {Contact, <<"blog", "post">>}

\* an item that is active on every route under its href
isActiveUnder(pathname, item) ==
  /\ Len(item.href) <= Len(pathname)
  /\ SubSeq(pathname, 1, Len(item.href)) = item.href

\* pathname === item.href
isActive(pathname, item) == pathname = item.href

\* the links of the desktop list, as rendered
desktopLinks(h) ==
  [i \in 1..Len(navItems) |->
     [name |-> navItems[i].name, href |-> navItems[i].href,
      active |-> isActive(h.pathname, navItems[i])]]

\* the links of the mobile menu, as rendered: none when it is closed
mobileLinks(h) ==
  IF h.mobileMenuOpen
  THEN [i \in 1..Len(navItems) |->
          [name |-> navItems[i].name, href |-> navItems[i].href,
           active |-> isActive(h.pathname, navItems[i])]]
       \o << [name |-> "Hire Me", href |-> Contact, active |-> FALSE] >>
  ELSE <<>>

HeaderMounted(pathname) ==
  [mobileMenuOpen |-> FALSE, pathname |-> pathname, viewport |-> "mobile", toggles |-> 0]

\* setTimeout(..., 2000)
Timeout == 2000

TickMs == Timeout \div 2

\* the Hero of a route that does not render it
HeroUnmounted ==
  [mounted |-> FALSE, copied |-> FALSE, timers |-> <<>>, write |-> "none",
   age |-> Timeout]

HeroMounted == [HeroUnmounted EXCEPT !.mounted = TRUE]

\* the Hero after the route changes: kept on the home page, mounted anew on
\* entering it, unmounted on leaving it
HeroOn(hero, from, to) ==
  IF to # Home THEN HeroUnmounted
  ELSE IF from = Home THEN hero
  ELSE HeroMounted

(***************************************************************************)
(* State: the file system, the call made and what it produced.  The loader *)
(* keeps nothing between invocations (its only module-level binding is the *)
(* constant contentDirectory), so a behaviour is one invocation applied to *)
(* a file system drawn by Init.                                            *)
(***************************************************************************)
VARIABLES fs, call, ret

\* What the sessions of the later sections add: the platform the loader runs
\* on, the results of the earlier invocations, the number of edits made, and
\* the invocations in progress.
VARIABLES env, seen, edits, inv

\* The files outside the content directory, and the state of the two
\* components of the page: the Header and the Hero.
VARIABLES outer, Header, Hero

vars == <<fs, call, ret, env, seen, edits, inv, outer, Header, Hero>>

session == <<env, seen, edits, inv>>

page == <<Header, Hero>>

Init ==
  /\ fs \in FileSystems
  /\ call = [op |-> "none", slug |-> <<>>]
  /\ ret = NoCall
  /\ env = V8
  /\ seen = NothingSeen
  /\ edits = 0
  /\ inv = NoneRunning
  /\ outer = NothingOutside
  /\ Header = HeaderMounted(Home)
  /\ Hero = HeroMounted

Idle == call.op = "none"

GetBlogPosts ==
  /\ Idle
  /\ \E r \in getBlogPosts(fs) : ret' = r
  /\ call' = [op |-> "getBlogPosts", slug |-> <<>>]
  /\ UNCHANGED <<fs, session>>
  /\ UNCHANGED <<outer, page>>

GetBlogPost(slug) ==
  /\ Idle
  /\ ret' = getBlogPost(fs, slug)
  /\ call' = [op |-> "getBlogPost", slug |-> slug]
  /\ UNCHANGED <<fs, session>>
  /\ UNCHANGED <<outer, page>>

GetBlogPostsSetup ==
  /\ Idle
  /\ \E r \in getBlogPostsSetup(fs) : ret' = r
  /\ call' = [op |-> "getBlogPostsSetup", slug |-> <<>>]
  /\ UNCHANGED <<fs, session>>
  /\ UNCHANGED <<outer, page>>

GetBlogPostSetup(slug) ==
  /\ Idle
  /\ ret' = getBlogPostSetup(fs, slug)
  /\ call' = [op |-> "getBlogPostSetup", slug |-> slug]
  /\ UNCHANGED <<fs, session>>
  /\ UNCHANGED <<outer, page>>

Next ==
  \/ GetBlogPosts
  \/ \E slug \in Slugs : GetBlogPost(slug)
  \/ GetBlogPostsSetup
  \/ \E slug \in Slugs : GetBlogPostSetup(slug)

Spec == Init /\ [][Next]_vars

(***************************************************************************)
(* Vocabulary of the properties                                            *)
(***************************************************************************)
Listed == call.op = "getBlogPosts" /\ ret.kind = "list"

Fetched == call.op = "getBlogPost" /\ ret.kind = "post"

\* the content files getBlogPosts is to load
Matching == {n \in Present(fs.files) : endsWith(n, Ext)}

HasValidDate(p) == ~getTime(Get(p, "date")).nan

\* A.date >= B.date as times; a comparison with NaN is false
DateGeq(a, b) ==
  /\ HasValidDate(a)
  /\ HasValidDate(b)
  /\ getTime(Get(a, "date")).t >= getTime(Get(b, "date")).t

Descending(posts) == \A i \in 1..(Len(posts) - 1) : DateGeq(posts[i], posts[i + 1])

(***************************************************************************)
(* C1.  The list getBlogPosts returns is ordered newest-first: every       *)
(* adjacent pair (A, B) has date(A) >= date(B).                            *)
(***************************************************************************)
\* C1 as stated, for every content directory
C1_NewestFirst == Listed => Descending(ret.posts)

\* C1 amended: when every post of the list has a parseable date, the list
\* is ordered newest-first
C1_NewestFirstWhenDated ==
  (Listed /\ \A i \in 1..Len(ret.posts) : HasValidDate(ret.posts[i]))
    => Descending(ret.posts)

\* three posts with three different valid dates have been listed
C1_Witness ==
  /\ Listed
  /\ Len(ret.posts) = 3
  /\ \A i \in 1..3 : HasValidDate(ret.posts[i])
  /\ \A i, j \in 1..3 :
       i # j => getTime(ret.posts[i].date).t # getTime(ret.posts[j].date).t

(***************************************************************************)
(* C2.  When the content directory does not exist or contains no files,    *)
(* getBlogPosts returns an empty list and raises no error.                 *)
(***************************************************************************)
NoContent == fs.dir = "absent" \/ (fs.dir = "dir" /\ Present(fs.files) = {})

\* C2 for getBlogPosts in both versions of the loader
C2_EmptyWhenNoContent ==
  (call.op \in {"getBlogPosts", "getBlogPostsSetup"} /\ NoContent)
    => ret = Return(<<>>)

\* C2 for the updated version alone (holds: line 794 guards the enumeration)
C2_EmptyWhenNoContentUpdated ==
  (call.op = "getBlogPosts" /\ NoContent) => ret = Return(<<>>)

C2_WitnessUpdated == call.op = "getBlogPosts" /\ fs.dir = "absent" /\ ret = Return(<<>>)

(***************************************************************************)
(* C3.  If one content file cannot be read or parsed, getBlogPosts still   *)
(* returns a list with the Post of every other well-formed content file;   *)
(* the bad file is excluded and no exception reaches the caller.           *)
(***************************************************************************)
\* the content files that can be read and whose header parses
WellFormed ==
  {n \in Matching : fs.files[n].kind = "file" /\ fs.files[n].text # Malformed}

\* the header and the body of a well-formed content file
HeaderOf(n) == matter(fs.files[n].text).data

BodyOf(n) == matter(fs.files[n].text).content

\* post p carries the declared header fields of file n, and its body
Agrees(p, n) ==
  /\ \A k \in DOMAIN HeaderOf(n) : Get(p, k) = HeaderOf(n)[k]
  /\ "content" \in DOMAIN HeaderOf(n) \/ Get(p, "content") = BodyOf(n)

\* exactly one content file is bad and at least one other is well-formed
OneBadFile == Cardinality(Matching \ WellFormed) = 1 /\ WellFormed # {}

C3_BadFileIsSkipped ==
  (call.op = "getBlogPosts" /\ fs.dir = "dir" /\ OneBadFile)
    => /\ ret.kind = "list"
       /\ Len(ret.posts) = Cardinality(WellFormed)
       /\ \A n \in WellFormed : \E i \in 1..Len(ret.posts) : Agrees(ret.posts[i], n)

(***************************************************************************)
(* C4.  getBlogPost returns the parsed Post or null: when the file for the *)
(* slug is missing, unreadable or fails to parse, the result is null, and  *)
(* no exception reaches the caller.                                        *)
(***************************************************************************)
\* the file of the slug is there, can be read, and its header parses
Loadable(slug) ==
  /\ fs.dir = "dir"
  /\ withExt(slug) \in Names
  /\ fs.files[withExt(slug)].kind = "file"
  /\ fs.files[withExt(slug)].text # Malformed

C4_PostOrNull ==
  (call.op = "getBlogPost")
    => /\ ret.kind \in {"post", "null"}
       /\ ret.kind = "null" <=> ~Loadable(call.slug)
       /\ ret.kind = "post" => Agrees(ret.posts[1], withExt(call.slug))

\* a slug whose file exists and has a header that does not parse gave null
C4_Witness ==
  /\ call.op = "getBlogPost"
  /\ ret.kind = "null"
  /\ withExt(call.slug) \in Names
  /\ fs.files[withExt(call.slug)] = File(Malformed)

(***************************************************************************)
(* C5.  For every content file that parses, whatever its header declares,  *)
(* the Post produced by getBlogPosts and by getBlogPost has a slug equal   *)
(* to the file's name without its extension.                               *)
(***************************************************************************)
C5_SlugIsFileName ==
  /\ Fetched => Get(ret.posts[1], "slug") = Str(call.slug)
  /\ Listed =>
       \A n \in Matching :
         \E i \in 1..Len(ret.posts) :
           Agrees(ret.posts[i], n) /\ Get(ret.posts[i], "slug") = Str(replaceExt(n))

(***************************************************************************)
(* C6.  Round trip: a file written with header fields {title, date,        *)
(* excerpt, tags} and body B parses to a Post whose content is B exactly   *)
(* and whose declared fields equal the header values verbatim.             *)
(***************************************************************************)
RoundTrip(p, header, body) ==
  /\ Get(p, "content") = Str(joinLines(body))
  /\ \A k \in DOMAIN header : Get(p, k) = header[k]

C6_RoundTrip ==
  \A header \in Headers, body \in Bodies :
    /\ (Fetched /\ withExt(call.slug) \in Names
          /\ fs.files[withExt(call.slug)] = File(frontMatter(header, body)))
         => RoundTrip(ret.posts[1], header, body)
    /\ Listed =>
         \A n \in Matching :
           fs.files[n] = File(frontMatter(header, body))
             => \E i \in 1..Len(ret.posts) :
                  /\ Get(ret.posts[i], "slug") = Str(replaceExt(n))
                  /\ RoundTrip(ret.posts[i], header, body)

\* the file written with all four header fields has been listed next to
\* another post, and the file written with falsy excerpt and tags fetched
C6_Witness ==
  \/ /\ Listed
     /\ Len(ret.posts) >= 2
     /\ \E n \in Matching : fs.files[n] = File(frontMatter(Full, Article))
  \/ /\ Fetched
     /\ fs.files[withExt(call.slug)] = File(frontMatter(Undated, Short))

(***************************************************************************)
(* C7.  A post whose header has no excerpt field is returned with excerpt  *)
(* '' and a post whose header has no tags field with an empty tag          *)
(* collection, by getBlogPosts and by getBlogPost.                         *)
(***************************************************************************)
Defaults(p, n) ==
  /\ "excerpt" \notin DOMAIN HeaderOf(n) => Get(p, "excerpt") = Str(<<>>)
  /\ "tags" \notin DOMAIN HeaderOf(n) => Get(p, "tags") = Arr(<<>>)

C7_Defaults ==
  /\ Fetched => Defaults(ret.posts[1], withExt(call.slug))
  /\ Listed =>
       \A n \in Matching :
         \E i \in 1..Len(ret.posts) : Agrees(ret.posts[i], n) /\ Defaults(ret.posts[i], n)

\* a file whose header declares neither excerpt nor tags has been loaded
C7_Witness ==
  LET bare(n) == DOMAIN HeaderOf(n) = {"title", "date"}
  IN  \/ Fetched /\ bare(withExt(call.slug))
      \/ Listed /\ Len(ret.posts) >= 2 /\ \E n \in Matching : bare(n)

(***************************************************************************)
(* C8.  getBlogPosts returns exactly one Post for every file whose name    *)
(* ends in the content extension and none for any other file; sorting      *)
(* neither drops nor duplicates a post.                                    *)
(***************************************************************************)
C8_OnePostPerContentFile ==
  Listed =>
    /\ Len(ret.posts) = Cardinality(Matching)
    /\ \E src \in [1..Len(ret.posts) -> Matching] :
         /\ \A i, j \in 1..Len(ret.posts) : src[i] = src[j] => i = j
         /\ \A i \in 1..Len(ret.posts) : Agrees(ret.posts[i], src[i])

\* a listing of a directory with several content files and another file
C8_Witness ==
  /\ Listed
  /\ Cardinality(Matching) >= 2
  /\ Present(fs.files) \ Matching # {}

(***************************************************************************)
(* C9.  In every list getBlogPosts returns the slugs are pairwise          *)
(* distinct.                                                               *)
(***************************************************************************)
C9_DistinctSlugs ==
  Listed =>
    \A i, j \in 1..Len(ret.posts) :
      i # j => Get(ret.posts[i], "slug") # Get(ret.posts[j], "slug")

(***************************************************************************)
(* C10.  getBlogPost parses a file as getBlogPosts does: for every post P  *)
(* of the list getBlogPosts returns, getBlogPost(P.slug) on the same       *)
(* directory returns a Post equal to P field by field.                     *)
(***************************************************************************)
C10_SamePostBySlug ==
  Listed =>
    \A i \in 1..Len(ret.posts) :
      getBlogPost(fs, Get(ret.posts[i], "slug").v) = ReturnPost(ret.posts[i])

(***************************************************************************)
(* C11.  Every header field other than title, date, excerpt and tags is    *)
(* passed through: the Post of the file has field k equal to v.            *)
(***************************************************************************)
Recognized == {"title", "date", "excerpt", "tags"}

PassedThrough(p, n) ==
  \A k \in (DOMAIN HeaderOf(n)) \ Recognized : Get(p, k) = HeaderOf(n)[k]

C11_Passthrough ==
  /\ Fetched => PassedThrough(ret.posts[1], withExt(call.slug))
  /\ Listed =>
       \A n \in Matching :
         \E i \in 1..Len(ret.posts) :
           Get(ret.posts[i], "content") = BodyOf(n) /\ PassedThrough(ret.posts[i], n)

\* a file whose header has an author field has been loaded
C11_Witness ==
  \/ Fetched /\ "author" \in DOMAIN HeaderOf(withExt(call.slug))
  \/ Listed /\ Len(ret.posts) >= 2 /\ \E n \in Matching : "author" \in DOMAIN HeaderOf(n)

(***************************************************************************)
(* C12.  The readingTime of every returned Post is the estimate computed   *)
(* from the word count of its content, "X min read", whatever the header   *)
(* declares; a body of 200 words gives 1 minute.                           *)
(***************************************************************************)
Returned == IF Listed \/ Fetched THEN Range(ret.posts) ELSE {}

C12_ReadingTimeFromContent ==
  \A p \in Returned : Get(p, "readingTime") = readingTime(Get(p, "content"))

\* "word ".repeat(200)
TwoHundredWords == [i \in 1..200 |-> "word"]

\* the part of C12 that holds: the estimate of the posts whose header declares
\* no readingTime, and the estimate of a 200-word body
C12_ReadingTimeWhenUndeclared ==
  /\ readingTime(Str(TwoHundredWords)) = Str(<<"1", "min", "read">>)
  /\ Fetched =>
       ("readingTime" \in DOMAIN HeaderOf(withExt(call.slug))
          \/ Get(ret.posts[1], "readingTime") = readingTime(BodyOf(withExt(call.slug))))
  /\ Listed =>
       \A n \in Matching :
         "readingTime" \in DOMAIN HeaderOf(n)
           \/ \E i \in 1..Len(ret.posts) :
                /\ Agrees(ret.posts[i], n)
                /\ Get(ret.posts[i], "readingTime") = readingTime(BodyOf(n))

(***************************************************************************)
(* C13.  A content file hello-world.md with header title "Hello" and date  *)
(* "2025-01-01" placed in the content directory is loaded as a post with   *)
(* slug "hello-world" and title "Hello", in the listing and by its slug.   *)
(***************************************************************************)
HelloWorldMd == HelloWorld \o <<".", "m", "d">>

IsHelloWorld(p) ==
  /\ Get(p, "slug") = Str(HelloWorld)
  /\ Get(p, "title") = Str(<<"Hello">>)

C13_HelloWorldIsLoaded ==
  (fs.dir = "dir" /\ \E body \in Bodies : fs.files[HelloWorldMd] = File(frontMatter(Bare, body)))
    => /\ Listed => \E i \in 1..Len(ret.posts) : IsHelloWorld(ret.posts[i])
       /\ (call.op = "getBlogPost" /\ call.slug = HelloWorld)
            => (ret.kind = "post" /\ IsHelloWorld(ret.posts[1]))

(***************************************************************************)
(* C14.  For every state of the file system, neither getBlogPosts nor      *)
(* getBlogPost propagates an exception: each call returns a value.         *)
(***************************************************************************)
C14_NoException ==
  call.op \in {"getBlogPosts", "getBlogPost"} => ret.kind # "throw"

\* the part of C14 that holds: getBlogPost never throws, and getBlogPosts
\* throws only when the path is not a directory or a content file is bad
C14_ThrowsOnlyOnBadInput ==
  /\ call.op = "getBlogPost" => ret.kind # "throw"
  /\ (call.op = "getBlogPosts" /\ ret.kind = "throw")
       => (fs.dir = "file" \/ Matching \ WellFormed # {})

(***************************************************************************)
(* C19.  Posts whose date is missing or unparsable do not disturb the      *)
(* others: in the list getBlogPosts returns, the posts that have a valid   *)
(* date appear in descending date order relative to each other.            *)
(***************************************************************************)
C19_DatedPostsDescending ==
  Listed =>
    \A i, j \in 1..Len(ret.posts) :
      (i < j /\ HasValidDate(ret.posts[i]) /\ HasValidDate(ret.posts[j]))
        => DateGeq(ret.posts[i], ret.posts[j])

(***************************************************************************)
(* C20.  Every Post returned by getBlogPosts or getBlogPost has an excerpt *)
(* that is a string and a tags value that is a collection, also when the   *)
(* header declares excerpt or tags with an empty, null or falsy value.     *)
(***************************************************************************)
C20_ExcerptStringTagsCollection ==
  \A p \in Returned :
    /\ Get(p, "excerpt").ty = "string"
    /\ Get(p, "tags").ty = "array"

(***************************************************************************)
(* Sessions: invocations of the loader interleaved with edits of the       *)
(* content directory, on one platform.  An invocation runs to completion   *)
(* before anything else happens (the loader is synchronous).  seen keeps,  *)
(* for every invocation made, its latest result and the file system it ran *)
(* on.                                                                     *)
(***************************************************************************)
MaxEdits == 2

\* the content directory before the session: not yet created, or holding
\* three posts, one of them undated
Seeded ==
  [n \in Names |->
     IF n = withExt(<<"a">>) THEN File(frontMatter(Bare, Short))
     ELSE IF n = withExt(<<"b">>) THEN File(frontMatter(Undated, Short))
     ELSE IF n = withExt(<<"c">>) THEN File(frontMatter(Full, Article))
     ELSE Absent]

Seeds == {[dir |-> "absent", files |-> NoFiles], [dir |-> "dir", files |-> Seeded]}

\* what an edit writes into a content file
EditTexts == {frontMatter(Bare, Short), Malformed}

InitSession ==
  /\ fs \in Seeds
  /\ call = [op |-> "none", slug |-> <<>>]
  /\ ret = NoCall
  /\ env \in Platforms
  /\ seen = NothingSeen
  /\ edits = 0
  /\ inv = NoneRunning
  /\ outer = NothingOutside
  /\ Header = HeaderMounted(Home)
  /\ Hero = HeroMounted

\* the invocation that has just returned joins the earlier ones
remember ==
  IF call.op = "none" THEN seen
  ELSE [seen EXCEPT ![call] = [called |-> TRUE, ret |-> ret, at |-> fs]]

\* getBlogPosts creating the content directory it does not find
CallGetBlogPostsMkdir ==
  /\ ret' = getBlogPostsOn(env, fs)
  /\ call' = [op |-> "getBlogPosts", slug |-> <<>>]
  /\ seen' = remember
  /\ fs' = IF existsSync(fs) THEN fs ELSE [fs EXCEPT !.dir = "dir"]
  /\ UNCHANGED <<env, edits, inv>>
  /\ UNCHANGED <<outer, page>>

\* getBlogPosts pushing onto a posts array that outlives the call
CallGetBlogPostsAccumulating ==
  LET now   == getBlogPostsOn(env, fs)
      last  == IF call.op = "getBlogPosts" THEN ret
               ELSE seen[[op |-> "getBlogPosts", slug |-> <<>>]].ret
  IN  /\ ret' = IF now.kind = "list" /\ last.kind = "list"
                THEN Return(last.posts \o now.posts)
                ELSE now
      /\ call' = [op |-> "getBlogPosts", slug |-> <<>>]
      /\ seen' = remember
      /\ UNCHANGED <<fs, env, edits, inv>>
      /\ UNCHANGED <<outer, page>>

CallGetBlogPosts ==
  /\ ret' = getBlogPostsOn(env, fs)
  /\ call' = [op |-> "getBlogPosts", slug |-> <<>>]
  /\ seen' = remember
  /\ UNCHANGED <<fs, env, edits, inv>>
  /\ UNCHANGED <<outer, page>>

\* getBlogPost memoized by slug
CallGetBlogPostCached(slug) ==
  LET key == [op |-> "getBlogPost", slug |-> slug]
  IN  /\ ret' = IF call = key THEN ret
                ELSE IF seen[key].called THEN seen[key].ret
                ELSE getBlogPost(fs, slug)
      /\ call' = key
      /\ seen' = remember
      /\ UNCHANGED <<fs, env, edits, inv>>
      /\ UNCHANGED <<outer, page>>

CallGetBlogPost(slug) ==
  /\ ret' = getBlogPost(fs, slug)
  /\ call' = [op |-> "getBlogPost", slug |-> slug]
  /\ seen' = remember
  /\ UNCHANGED <<fs, env, edits, inv>>
  /\ UNCHANGED <<outer, page>>

\* mkdir -p src/content/blog
Mkdir ==
  /\ edits < MaxEdits
  /\ fs.dir = "absent"
  /\ fs' = [fs EXCEPT !.dir = "dir"]
  /\ edits' = edits + 1
  /\ call' = [op |-> "none", slug |-> <<>>]
  /\ ret' = NoCall
  /\ seen' = remember
  /\ UNCHANGED <<env, inv>>
  /\ UNCHANGED <<outer, page>>

\* cat > src/content/blog/<name>
WriteFile(name, text) ==
  /\ edits < MaxEdits
  /\ fs.dir = "dir"
  /\ fs.files[name] # File(text)
  /\ Cardinality(Present(fs.files) \cup {name}) <= MaxFiles
  /\ fs' = [fs EXCEPT !.files[name] = File(text)]
  /\ edits' = edits + 1
  /\ call' = [op |-> "none", slug |-> <<>>]
  /\ ret' = NoCall
  /\ seen' = remember
  /\ UNCHANGED <<env, inv>>
  /\ UNCHANGED <<outer, page>>

NextSession ==
  \/ CallGetBlogPosts
  \/ \E slug \in SessionSlugs : CallGetBlogPost(slug)
  \/ Mkdir
  \/ \E name \in Names, text \in EditTexts : WriteFile(name, text)

SpecSession == InitSession /\ [][NextSession]_vars

\* on every platform the loader returns one of the results getBlogPosts allows
PlatformIsAllowed == call.op = "getBlogPosts" => ret \in getBlogPosts(fs)

(***************************************************************************)
(* C15.  getBlogPosts and getBlogPost only read: after any sequence of     *)
(* calls, the set of files in the content directory and the contents of    *)
(* every file are unchanged.                                               *)
(***************************************************************************)
\* every step that is an invocation of the loader leaves the file system as
\* it was
C15_CallsOnlyRead == [][call'.op # "none" => fs' = fs]_vars

\* a second invocation has returned, over a directory that holds posts
C15_Witness ==
  /\ call.op # "none"
  /\ \E k \in Keys : k # call /\ seen[k].called /\ seen[k].at = fs
  /\ Cardinality(Matching) >= 2

\* the first invocation of a session finds the missing directory still missing
C15_MissingStaysMissing ==
  (call.op # "none" /\ edits = 0 /\ ret = Return(<<>>)) => fs.dir = "absent"

(***************************************************************************)
(* C16.  The loader keeps no cache: in any sequence of loader calls        *)
(* interleaved with edits of content files, each call returns the posts as *)
(* they are on disk at the time of that call, never a result computed by   *)
(* an earlier call.                                                        *)
(***************************************************************************)
\* the posts are those of the content files now on disk, one for each
OfDisk(posts) ==
  /\ Len(posts) = Cardinality(Matching)
  /\ \E src \in [1..Len(posts) -> Matching] :
       /\ \A i, j \in 1..Len(posts) : src[i] = src[j] => i = j
       /\ \A i \in 1..Len(posts) :
            /\ Agrees(posts[i], src[i])
            /\ Get(posts[i], "content") = BodyOf(src[i])

Shared ==
  Seeds
  \cup {[dir |-> "file", files |-> NoFiles]}
  \cup {[dir |-> "dir", files |-> [Seeded EXCEPT ![n] = e]] :
          n \in {withExt(<<"a">>), withExt(<<"b">>)},
          e \in {File(Malformed), Unreadable, Absent, File(Overriding)}}

InitConcurrent ==
  /\ fs \in Shared
  /\ call = [op |-> "none", slug |-> <<>>]
  /\ ret = NoCall
  /\ env \in Platforms
  /\ seen = NothingSeen
  /\ edits = 0
  /\ inv = NoneRunning
  /\ outer = NothingOutside
  /\ Header = HeaderMounted(Home)
  /\ Hero = HeroMounted

Running(c) == inv[c].pc \notin {"idle", "done"}

\* caller c invokes the loader
Begin(c, key) ==
  /\ inv[c].pc = "idle"
  /\ inv' = [d \in Callers |->
               IF d = c
               THEN [NotRunning EXCEPT !.pc = "entered", !.key = key,
                                       !.overlapped = \E o \in Callers : Running(o)]
               ELSE [inv[d] EXCEPT !.overlapped = @ \/ Running(d)]]
  /\ UNCHANGED <<fs, call, ret, env, seen, edits>>
  /\ UNCHANGED <<outer, page>>

\* lines 794-801: the guard, the enumeration and the filter
Enumerate(c) ==
  /\ inv[c].pc = "entered"
  /\ inv[c].key.op = "getBlogPosts"
  /\ inv' = [inv EXCEPT ![c] =
               IF ~existsSync(fs) THEN [@ EXCEPT !.pc = "done", !.ret = Return(<<>>)]
               ELSE IF fs.dir # "dir" THEN [@ EXCEPT !.pc = "done", !.ret = Throw]
               ELSE [@ EXCEPT !.pc = "map", !.files = filter(readdirOn(env, fs))]]
  /\ UNCHANGED <<fs, call, ret, env, seen, edits>>
  /\ UNCHANGED <<outer, page>>

\* getBlogPosts mapping into a posts array shared by the invocations in
\* progress
MapNextShared(c) ==
  /\ inv[c].pc = "map"
  /\ inv[c].files # <<>>
  /\ inv' = [d \in Callers |->
               IF ~Parses(fs, Head(inv[c].files))
               THEN IF d = c THEN [inv[d] EXCEPT !.pc = "done", !.ret = Throw] ELSE inv[d]
               ELSE IF d = c
                    THEN [inv[d] EXCEPT !.files = Tail(@),
                            !.posts = Append(@, mapFile(fs, Head(inv[c].files)))]
                    ELSE IF inv[d].pc = "map"
                         THEN [inv[d] EXCEPT
                                 !.posts = Append(@, mapFile(fs, Head(inv[c].files)))]
                         ELSE inv[d]]
  /\ UNCHANGED <<fs, call, ret, env, seen, edits>>
  /\ UNCHANGED <<outer, page>>

\* lines 802-819: the callback of map on the next name
MapNext(c) ==
  /\ inv[c].pc = "map"
  /\ inv[c].files # <<>>
  /\ inv' = [inv EXCEPT ![c] =
               IF ~Parses(fs, Head(inv[c].files))
               THEN [@ EXCEPT !.pc = "done", !.ret = Throw]
               ELSE [@ EXCEPT !.files = Tail(@),
                              !.posts = Append(@, mapFile(fs, Head(inv[c].files)))]]
  /\ UNCHANGED <<fs, call, ret, env, seen, edits>>
  /\ UNCHANGED <<outer, page>>

\* line 820: the sort and the return
SortAndReturn(c) ==
  /\ inv[c].pc = "map"
  /\ inv[c].files = <<>>
  /\ inv' = [inv EXCEPT ![c] =
               [@ EXCEPT !.pc = "done", !.ret = Return(sortOn(env, inv[c].posts))]]
  /\ UNCHANGED <<fs, call, ret, env, seen, edits>>
  /\ UNCHANGED <<outer, page>>

\* lines 826-844: getBlogPost reads one file
Fetch(c) ==
  /\ inv[c].pc = "entered"
  /\ inv[c].key.op = "getBlogPost"
  /\ inv' = [inv EXCEPT ![c] =
               [@ EXCEPT !.pc = "done", !.ret = getBlogPost(fs, inv[c].key.slug)]]
  /\ UNCHANGED <<fs, call, ret, env, seen, edits>>
  /\ UNCHANGED <<outer, page>>

NextConcurrent ==
  \/ \E c \in Callers, key \in Keys : Begin(c, key)
  \/ \E c \in Callers : Enumerate(c)
  \/ \E c \in Callers : MapNext(c)
  \/ \E c \in Callers : SortAndReturn(c)
  \/ \E c \in Callers : Fetch(c)

SpecConcurrent == InitConcurrent /\ [][NextConcurrent]_vars

(***************************************************************************)
(* C18.  Concurrent callers are isolated: when several invocations of the  *)
(* loader are interleaved over an unchanged content directory, each        *)
(* returns the same result it would if run alone.                          *)
(***************************************************************************)
\* what the invocation of key returns when nothing else runs
Alone(key) ==
  IF key.op = "getBlogPosts" THEN getBlogPostsOn(env, fs)
  ELSE getBlogPost(fs, key.slug)

C18_Isolated ==
  \A c \in Callers : inv[c].pc = "done" => inv[c].ret = Alone(inv[c].key)

\* two listings that ran at the same time have both returned several posts
C18_Witness ==
  \A c \in Callers :
    /\ inv[c].pc = "done"
    /\ inv[c].overlapped
    /\ inv[c].key.op = "getBlogPosts"
    /\ inv[c].ret.kind = "list"
    /\ Len(inv[c].ret.posts) >= 2

(***************************************************************************)
(* getBlogPost called with any string: slugs with path separators and      *)
(* ".." segments, over a content directory and the files around it.        *)
(***************************************************************************)
PathSlugs ==
  { <<"a">>,
    <<"z", "z">>,
    <<".", "/", "a">>,
    <<"a", "/", ".", ".", "/", "b">>,
    <<"b", "/", "x">>,
    <<".", ".", "/", "projects", "/", "x">>,
    <<".", ".", "/", ".", ".", "/", ".", ".", "/", "secret">> }

Outside == [OuterPaths -> {Absent, File(frontMatter(Bare, Short)), File(Malformed)}]

InitPaths ==
  /\ fs \in Shared
  /\ outer \in Outside
  /\ call = [op |-> "none", slug |-> <<>>]
  /\ ret = NoCall
  /\ env = V8
  /\ seen = NothingSeen
  /\ edits = 0
  /\ inv = NoneRunning
  /\ Header = HeaderMounted(Home)
  /\ Hero = HeroMounted

GetBlogPostAt(slug) ==
  /\ Idle
  /\ ret' = getBlogPostAt(fs, outer, slug)
  /\ call' = [op |-> "getBlogPost", slug |-> slug]
  /\ UNCHANGED <<fs, outer, session, page>>

NextPaths == \E slug \in PathSlugs : GetBlogPostAt(slug)

SpecPaths == InitPaths /\ [][NextPaths]_vars

\* for a slug that is a plain name the path is the entry of that name
PlainSlugIsEntry ==
  (call.op = "getBlogPost" /\ call.slug \in Slugs) => ret = getBlogPost(fs, call.slug)

(***************************************************************************)
(* C21.  getBlogPost reads only files located inside the content           *)
(* directory: for every slug string, including slugs that contain path     *)
(* separators or ".." segments, a non-null result comes from a file that   *)
(* is a direct entry of the content directory.                             *)
(***************************************************************************)
C21_ReadsInsideOnly ==
  Fetched => DirectEntry(join(contentDirectory, withExt(call.slug)))

\* the part of C21 that holds: a slug without ".." segments that leave the
\* directory gives the post of the entry its path names, or null
C21_InsideWhenNotLeaving ==
  (Fetched /\ DirectEntry(join(contentDirectory, withExt(call.slug))))
    => LET n == join(contentDirectory, withExt(call.slug))[Len(contentDirectory) + 1]
       IN  /\ fs.dir = "dir"
           /\ n \in Names
           /\ fs.files[n].kind = "file"
           /\ Get(ret.posts[1], "content") = BodyOf(n) \/ "content" \in DOMAIN HeaderOf(n)

(***************************************************************************)
(* C22.  The updated loader refines the loader written by the setup        *)
(* script: for every content directory that exists, both versions of       *)
(* getBlogPosts return the same posts in the same order and both versions  *)
(* of getBlogPost return the same result for every slug, the only          *)
(* difference being that the updated version adds an empty tags collection *)
(* to posts whose header has no tags.                                      *)
(***************************************************************************)
\* post u of the updated version is post s of the setup script's version,
\* with an empty tags collection added when s has no tags
SameButTags(u, s) ==
  IF "tags" \in DOMAIN s THEN u = s
  ELSE /\ DOMAIN u = DOMAIN s \cup {"tags"}
       /\ u["tags"] = Arr(<<>>)
       /\ \A k \in DOMAIN s : u[k] = s[k]

\* result u of the updated version against result s of the setup script's
Refines(u, s) ==
  /\ u.kind = s.kind
  /\ Len(u.posts) = Len(s.posts)
  /\ \A i \in 1..Len(u.posts) : SameButTags(u.posts[i], s.posts[i])

C22_UpdatedRefinesSetup ==
  existsSync(fs) =>
    /\ call.op = "getBlogPosts" => \E s \in getBlogPostsSetup(fs) : Refines(ret, s)
    /\ call.op = "getBlogPostsSetup" => \E u \in getBlogPosts(fs) : Refines(u, ret)
    /\ call.op = "getBlogPost" => Refines(ret, getBlogPostSetup(fs, call.slug))
    /\ call.op = "getBlogPostSetup" => Refines(getBlogPost(fs, call.slug), ret)

\* the setup script's version has listed a post without tags next to a post
\* with tags
C22_Witness ==
  /\ call.op = "getBlogPostsSetup"
  /\ ret.kind = "list"
  /\ \E i, j \in 1..Len(ret.posts) :
       /\ "tags" \notin DOMAIN ret.posts[i]
       /\ "tags" \in DOMAIN ret.posts[j]
       /\ Get(ret.posts[j], "tags").ty = "array"

(***************************************************************************)
(* The visitor's page: clicks on the Header and on the copy button of the  *)
(* Hero, the outcome of the clipboard write, and the passing of time.      *)
(***************************************************************************)
\* the routes a visit starts on: the home page, or a post reached by its URL
Landings == {Home, <<"blog", "post">>}

InitPage ==
  /\ fs = [dir |-> "absent", files |-> NoFiles]
  /\ call = [op |-> "none", slug |-> <<>>]
  /\ ret = NoCall
  /\ env = V8
  /\ seen = NothingSeen
  /\ edits = 0
  /\ inv = NoneRunning
  /\ outer = NothingOutside
  /\ \E pathname \in Landings :
       /\ Header = HeaderMounted(pathname)
       /\ Hero = HeroOn(HeroUnmounted, Contact, pathname)

loader == <<fs, call, ret, session, outer>>

\* onClick={() => setMobileMenuOpen(!mobileMenuOpen)}
ClickToggle ==
  /\ Header.viewport = "mobile"
  /\ Header.toggles < MaxToggles
  /\ Header' = [Header EXCEPT !.mobileMenuOpen = ~@, !.toggles = @ + 1]
  /\ UNCHANGED <<Hero, loader>>

\* a menu link that navigates and leaves the menu as it is
ClickMenuLinkNoClose(href) ==
  /\ Header.viewport = "mobile"
  /\ \E i \in 1..Len(mobileLinks(Header)) : mobileLinks(Header)[i].href = href
  /\ Header' = [Header EXCEPT !.pathname = href, !.toggles = 0]
  /\ Hero' = HeroOn(Hero, Header.pathname, href)
  /\ UNCHANGED loader

\* a link of the mobile menu: onClick={() => setMobileMenuOpen(false)}, and
\* the navigation of the Link
ClickMenuLink(href) ==
  /\ Header.viewport = "mobile"
  /\ \E i \in 1..Len(mobileLinks(Header)) : mobileLinks(Header)[i].href = href
  /\ Header' = [Header EXCEPT !.mobileMenuOpen = FALSE, !.pathname = href, !.toggles = 0]
  /\ Hero' = HeroOn(Hero, Header.pathname, href)
  /\ UNCHANGED loader

\* a link of the desktop list, the logo or the desktop Hire Me
ClickDesktopLink(href) ==
  /\ Header.viewport = "desktop"
  /\ href = Contact \/ \E i \in 1..Len(desktopLinks(Header)) : desktopLinks(Header)[i].href = href
  /\ Header' = [Header EXCEPT !.pathname = href]
  /\ Hero' = HeroOn(Hero, Header.pathname, href)
  /\ UNCHANGED loader

\* the window crosses the md breakpoint
Resize ==
  /\ Header' = [Header EXCEPT !.viewport = IF @ = "mobile" THEN "desktop" ELSE "mobile"]
  /\ UNCHANGED <<Hero, loader>>

\* handleCopy that never schedules the reset
ClickCopyNoReset ==
  /\ Hero.mounted
  /\ Len(Hero.timers) < MaxTimers
  /\ ~Hero.copied
  /\ Hero' = [Hero EXCEPT !.copied = TRUE, !.write = "pending", !.age = 0]
  /\ UNCHANGED <<Header, loader>>

\* handleCopy: start the clipboard write, set the flag, schedule the reset
ClickCopy ==
  /\ Hero.mounted
  /\ Len(Hero.timers) < MaxTimers
  /\ Hero' = [Hero EXCEPT !.copied = TRUE, !.timers = Append(@, Timeout),
                          !.write = "pending", !.age = 0]
  /\ UNCHANGED <<Header, loader>>

\* the promise of navigator.clipboard.writeText settles; nothing awaits it
Settle(outcome) ==
  /\ Hero.mounted
  /\ Hero.write = "pending"
  /\ Hero' = [Hero EXCEPT !.write = outcome]
  /\ UNCHANGED <<Header, loader>>

\* time passes, unless a timer is due
Tick ==
  /\ Hero.mounted
  /\ Hero.timers # <<>> \/ Hero.age < Timeout
  /\ \A i \in 1..Len(Hero.timers) : Hero.timers[i] > 0
  /\ Hero' = [Hero EXCEPT
                !.timers = [i \in 1..Len(@) |-> @[i] - TickMs],
                !.age = IF @ + TickMs > Timeout THEN Timeout ELSE @ + TickMs]
  /\ UNCHANGED <<Header, loader>>

\* the callback of the oldest timer: () => setCopied(false)
Fire ==
  /\ Hero.mounted
  /\ Hero.timers # <<>>
  /\ Head(Hero.timers) <= 0
  /\ Hero' = [Hero EXCEPT !.copied = FALSE, !.timers = Tail(@)]
  /\ UNCHANGED <<Header, loader>>

NextPage ==
  \/ ClickToggle
  \/ \E href \in Paths : ClickMenuLink(href)
  \/ \E href \in Paths : ClickDesktopLink(href)
  \/ Resize
  \/ ClickCopy
  \/ \E outcome \in {"fulfilled", "rejected"} : Settle(outcome)
  \/ Tick
  \/ Fire

SpecPage == InitPage /\ [][NextPage]_vars

\* the page with time that does not stop and timers that do fire
SpecPageFair == SpecPage /\ WF_vars(Tick) /\ WF_vars(Fire)

(***************************************************************************)
(* C23.  Header mobile menu: closed initially; each click on the toggle    *)
(* flips it; a click on any link of the open menu leaves it closed; the    *)
(* menu links are rendered exactly when the menu is open.  So the menu is  *)
(* open iff the number of toggle clicks since the last link click (or      *)
(* since the start) is odd.                                                *)
(***************************************************************************)
C23_OpenIffOddToggles ==
  /\ Header.mobileMenuOpen <=> Header.toggles % 2 = 1
  /\ mobileLinks(Header) # <<>> <=> Header.mobileMenuOpen

\* the menu is open after three toggle clicks, on a route that only a link
\* leads to
C23_Witness ==
  /\ Header.mobileMenuOpen
  /\ Header.toggles = 3
  /\ Header.pathname = Contact

(***************************************************************************)
(* C24.  Hero copy indicator: the copied flag is false initially, and      *)
(* after any sequence of clicks on the copy button it eventually returns   *)
(* to false: every click is followed, 2000 ms later, by a reset.           *)
(***************************************************************************)
C24_EventuallyReset == Hero.copied ~> ~Hero.copied

\* the flag is false when the Hero is mounted, and is true only while a
\* reset is pending
C24_FalseUnlessResetPending ==
  /\ (Hero.age = Timeout /\ Hero.timers = <<>>) => ~Hero.copied
  /\ Hero.copied => Hero.timers # <<>>

\* the flag is set and two resets are pending
C24_Witness == Hero.copied /\ Len(Hero.timers) = 2

(***************************************************************************)
(* C25.  Hero copy indicator: after every click on the copy button the     *)
(* copied flag stays true for the full 2000 ms that follow that click,     *)
(* also when earlier clicks were made less than 2000 ms before it.         *)
(***************************************************************************)
C25_TrueForTimeout == Hero.age < Timeout => Hero.copied

(***************************************************************************)
(* C26.  Hero copy indicator: the copied flag is true only when the        *)
(* clipboard write of the code snippet has succeeded; while writeText is   *)
(* pending or when it is rejected, the success indicator is not shown.     *)
(***************************************************************************)
C26_CopiedOnlyWhenWritten == Hero.copied => Hero.write = "fulfilled"

(***************************************************************************)
(* C27.  Header navigation highlight: for every pathname at most one       *)
(* navigation item is rendered as active, an item is active exactly when   *)
(* its href equals the pathname, and the desktop list and the mobile menu  *)
(* mark the same item.                                                     *)
(***************************************************************************)
C27_OneActiveItem ==
  LET d == desktopLinks(Header)
      m == mobileLinks(Header)
  IN  /\ Cardinality({i \in 1..Len(d) : d[i].active}) <= 1
      /\ \A i \in 1..Len(d) : d[i].active <=> d[i].href = Header.pathname
      /\ m # <<>> =>
           \A i \in 1..Len(d) :
             m[i].name = d[i].name /\ m[i].href = d[i].href /\ m[i].active = d[i].active

\* the open menu and the desktop list both mark Blog
C27_Witness ==
  /\ Header.mobileMenuOpen
  /\ Header.pathname = <<"blog">>
  /\ \E i \in 1..Len(navItems) :
       /\ desktopLinks(Header)[i].name = "Blog"
       /\ desktopLinks(Header)[i].active
       /\ mobileLinks(Header)[i].active

=============================================================================
